---- MODULE Spec2Model ----
(***************************************************************************)
(* Number classification API (main.go): the /api/classify-number handler,  *)
(* its number-property evaluator functions and the fun-fact enrichment.    *)
(*                                                                         *)
(* Strings are sequences of string fragments (one character each in the    *)
(* query).  Go ints are TLC integers, except in digitSum, whose argument   *)
(* is a two-limb decimal value so that the float64 round trip of line 105  *)
(* keeps its 53-bit precision.                                             *)
(***************************************************************************)
EXTENDS Integers, Sequences, FiniteSets, TLC

VARIABLES
    pc,         \* "idle" | "get" (blocked in http.Get) | "done" (response written)
    query,      \* the request's query string: [present, value]
    numberStr,  \* classifyNumber's numberStr after TrimSpace
    number,     \* classifyNumber's number (meaningful once parsing succeeded)
    partial,    \* the evaluator results computed before getFunFact is entered
    status,     \* HTTP status of the response, 0 while none is written
    body,       \* JSON body of the response
    evalCalls,  \* evaluator function calls made for the current request
    getCalls,   \* http.Get calls made for the current request
    provider,   \* disposition of the fun-fact provider for the current call
    reply,      \* what http.Get delivered to getFunFact
    arg,        \* evaluator harness: the integer the function is applied to
    res,        \* evaluator harness: [fn, val] of the last call, or NoRes
    handlers,   \* concurrent server: the state of each handler goroutine
    build,      \* concurrent server: this build's out-of-range int conversion
    memo,       \* concurrent server: one earlier response, kept for comparison
    vres        \* variant programs: the last response of one of them

vars == <<pc, query, numberStr, number, partial, status, body, evalCalls,
          getCalls, provider, reply, arg, res, handlers, build, memo, vres>>

handlerVars == <<pc, query, numberStr, number, partial, status, body,
                 evalCalls, getCalls, provider, reply>>

extVars == <<handlers, build, memo, vres>>

(***************************************************************************)
(* Bounds of the model.                                                    *)
(***************************************************************************)
MaxLen == 3     \* longest enumerated query value, in characters
MaxImpl == 2    \* implementation-dependent conversion results: -MaxImpl..MaxImpl
MaxN == 500     \* evaluator harness inputs: -MaxN..MaxN
MaxOff == 3     \* evaluator harness inputs: 2^53 - MaxOff .. 2^53 + MaxOff
NumProcs == 2   \* concurrent server: handler goroutines running at once

(***************************************************************************)
(* Characters and strings.                                                 *)
(***************************************************************************)
DigitStr == <<"0", "1", "2", "3", "4", "5", "6", "7", "8", "9">>
DigitChars == {DigitStr[i] : i \in 1..10}
DigitVal(c) == (CHOOSE i \in 1..10 : DigitStr[i] = c) - 1

Chars == {"0", "1", "3", "4", "5", "7", ".", "-", " ", "a"}

ShortStrings == UNION {[1..k -> Chars] : k \in 0..MaxLen}

\* Decimal literals with twenty integer digits: beyond the int range.
LongStrings ==
    { <<"9","9","9","9","9","9","9","9","9","9",
        "9","9","9","9","9","9","9","9","9","9">>,
      <<"-","9","9","9","9","9","9","9","9","9","9",
        "9","9","9","9","9","9","9","9","9","9">>,
      <<"1","0","0","0","0","0","0","0","0","0",
        "0","0","0","0","0","0","0","0","0","0",".","5">> }

Queries ==
    {[present |-> FALSE, value |-> <<>>]} \cup
    {[present |-> TRUE, value |-> s] : s \in ShortStrings \cup LongStrings}

\* c.Query("number"): the value, or "" when the key is absent.
Query(q) == IF q.present THEN q.value ELSE <<>>

IsSpace(c) == c = " "

RECURSIVE TrimLeft(_)
TrimLeft(s) ==
    IF s # <<>> /\ IsSpace(Head(s)) THEN TrimLeft(Tail(s)) ELSE s

RECURSIVE TrimRight(_)
TrimRight(s) ==
    IF s # <<>> /\ IsSpace(s[Len(s)])
    THEN TrimRight(SubSeq(s, 1, Len(s) - 1))
    ELSE s

\* strings.TrimSpace
TrimSpace(s) == TrimRight(TrimLeft(s))

(***************************************************************************)
(* strconv.ParseFloat on decimal literals: optional sign, digits with at   *)
(* most one '.', at least one digit, and nothing left over.  The result    *)
(* keeps the integer-part and fraction digits.  Exponents, hex floats,     *)
(* underscores, "inf" and "nan" need characters outside Chars.             *)
(***************************************************************************)
RECURSIVE readFloat(_, _, _, _, _)
readFloat(s, i, sawdot, ip, fp) ==
    IF i > Len(s) THEN [n |-> i, sawdot |-> sawdot, ip |-> ip, fp |-> fp]
    ELSE IF s[i] = "." THEN
        IF sawdot THEN [n |-> i, sawdot |-> sawdot, ip |-> ip, fp |-> fp]
        ELSE readFloat(s, i + 1, TRUE, ip, fp)
    ELSE IF s[i] \in DigitChars THEN
        IF sawdot THEN readFloat(s, i + 1, sawdot, ip, Append(fp, s[i]))
        ELSE readFloat(s, i + 1, sawdot, Append(ip, s[i]), fp)
    ELSE [n |-> i, sawdot |-> sawdot, ip |-> ip, fp |-> fp]

ParseFloat(s) ==
    IF s = <<>> THEN [err |-> TRUE]
    ELSE
        LET signed == s[1] \in {"+", "-"}
            r == readFloat(s, IF signed THEN 2 ELSE 1, FALSE, <<>>, <<>>)
        IN  IF r.ip = <<>> /\ r.fp = <<>> THEN [err |-> TRUE]
            ELSE IF r.n # Len(s) + 1 THEN [err |-> TRUE]
            ELSE [err |-> FALSE, neg |-> s[1] = "-", ip |-> r.ip, fp |-> r.fp]

RECURSIVE StripZeros(_)
StripZeros(d) ==
    IF d # <<>> /\ Head(d) = "0" THEN StripZeros(Tail(d)) ELSE d

RECURSIVE DigitsValue(_, _)
DigitsValue(d, acc) ==
    IF d = <<>> THEN acc ELSE DigitsValue(Tail(d), acc * 10 + DigitVal(Head(d)))

\* 2^63, the first magnitude a 64-bit int cannot hold.
TwoTo63 == <<"9","2","2","3","3","7","2","0","3","6",
             "8","5","4","7","7","5","8","0","8">>

RECURSIVE DigitsLess(_, _)
DigitsLess(a, b) ==
    IF a = <<>> THEN FALSE
    ELSE IF DigitVal(Head(a)) # DigitVal(Head(b))
         THEN DigitVal(Head(a)) < DigitVal(Head(b))
         ELSE DigitsLess(Tail(a), Tail(b))

\* Whether the truncated float lies outside the range of int.
OutOfRange(f) ==
    LET d == StripZeros(f.ip)
    IN  \/ Len(d) > Len(TwoTo63)
        \/ Len(d) = Len(TwoTo63) /\ ~DigitsLess(d, TwoTo63)

\* The results an out-of-range float-to-int conversion may produce: the
\* language leaves the value to the implementation.
ImplDefined == (0 - MaxImpl)..MaxImpl

\* int(numberFloat): truncation toward zero; the set of possible results.
IntOfFloat(f) ==
    IF OutOfRange(f) THEN ImplDefined
    ELSE LET m == DigitsValue(StripZeros(f.ip), 0)
         IN  {IF f.neg THEN 0 - m ELSE m}

(***************************************************************************)
(* Go integer arithmetic.                                                  *)
(***************************************************************************)
\* a % b, truncated: the remainder has the sign of the dividend.
GoRem(a, b) == IF a >= 0 THEN a % b ELSE 0 - ((0 - a) % b)

RECURSIVE ItoaDigits(_)
ItoaDigits(n) ==
    IF n < 10 THEN <<DigitStr[n + 1]>>
    ELSE Append(ItoaDigits(n \div 10), DigitStr[(n % 10) + 1])

\* strconv.Itoa
Itoa(n) == IF n < 0 THEN <<"-">> \o ItoaDigits(0 - n) ELSE ItoaDigits(n)

\* int(math.Sqrt(float64(n))) for n >= 0: the conversion and the square
\* root are exact enough below 2^52 that the truncation is the integer root.
Sqrt(n) == CHOOSE r \in 0..n : r * r <= n /\ (r + 1) * (r + 1) > n

\* int(math.Pow(float64(x), float64(y))); exact while the power is below 2^53.
Pow(x, y) == x ^ y

(***************************************************************************)
(* Number-property evaluator.                                              *)
(***************************************************************************)
RECURSIVE primeLoop(_, _)
primeLoop(n, i) ==
    IF i <= Sqrt(n)
    THEN IF n % i = 0 THEN FALSE ELSE primeLoop(n, i + 1)
    ELSE TRUE

\* Faulty variant: the loop stops one short of the square root.
isPrime_OffByOne(n) ==
    IF n < 2 THEN FALSE
    ELSE \A i \in 2..(Sqrt(n) - 1) : n % i # 0

isPrime(n) == IF n < 2 THEN FALSE ELSE primeLoop(n, 2)

\* What isPerfect's loop adds to sum over the iterations i = lo, ..., hi-1;
\* the range is halved to keep the evaluation shallow.
RECURSIVE perfectLoop(_, _, _)
perfectLoop(n, lo, hi) ==
    IF lo >= hi THEN 0
    ELSE IF hi = lo + 1 THEN (IF n % lo = 0 THEN lo ELSE 0)
    ELSE perfectLoop(n, lo, (lo + hi) \div 2) + perfectLoop(n, (lo + hi) \div 2, hi)

\* Faulty variant: no n <= 0 guard.
isPerfect_NoGuard(n) == 0 + perfectLoop(n, 1, n) = n

isPerfect(n) == IF n <= 0 THEN FALSE ELSE 0 + perfectLoop(n, 1, n) = n

RECURSIVE armstrongLoop(_, _, _)
armstrongLoop(temp, numDigits, sum) ==
    IF temp > 0
    THEN armstrongLoop(temp \div 10, numDigits, sum + Pow(temp % 10, numDigits))
    ELSE sum

\* Faulty variant: digits are always cubed.
isArmstrong_Cubes(n) == armstrongLoop(n, 3, 0) = n

isArmstrong(n) == armstrongLoop(n, Len(Itoa(n)), 0) = n

(***************************************************************************)
(* Wide integers [neg, hi, lo] of value +-(hi * Limb + lo), for digitSum:  *)
(* an int reaches past 2^53, where float64 no longer holds every integer.  *)
(***************************************************************************)
Limb == 10 ^ 8

Int64(n) ==
    LET m == IF n < 0 THEN 0 - n ELSE n
    IN  [neg |-> n < 0, hi |-> m \div Limb, lo |-> m % Limb]

WLess(a, b) == a.hi < b.hi \/ (a.hi = b.hi /\ a.lo < b.lo)

WDouble(a) ==
    [neg |-> a.neg, hi |-> 2 * a.hi + ((2 * a.lo) \div Limb), lo |-> (2 * a.lo) % Limb]

\* The magnitude of w moved by k, for 0 <= |k| < Limb.
WShift(w, k) ==
    LET l == w.lo + k
    IN  IF l < 0 THEN [w EXCEPT !.hi = w.hi - 1, !.lo = l + Limb]
        ELSE IF l >= Limb THEN [w EXCEPT !.hi = w.hi + 1, !.lo = l - Limb]
        ELSE [w EXCEPT !.lo = l]

\* 2^53 = 9007199254740992: up to it float64 holds every integer.
TwoTo53 == [neg |-> FALSE, hi |-> 90071992, lo |-> 54740992]

\* The spacing of float64 values around magnitude w: 1 below 2^53, doubling
\* with each further power of two.
RECURSIVE Ulp(_, _, _)
Ulp(w, bound, g) == IF WLess(w, bound) THEN g ELSE Ulp(w, WDouble(bound), 2 * g)

\* float64(n) for an int n: the nearest float64, ties to the even
\* significand.  The spacing divides Limb, so remainders are taken on lo.
Float64(w) ==
    LET g == Ulp(w, TwoTo53, 1)
        r == w.lo % g
        down == WShift(w, 0 - r)
        up == WShift(w, g - r)
    IN  IF r = 0 THEN w
        ELSE IF 2 * r < g THEN down
        ELSE IF 2 * r > g THEN up
        ELSE IF down.lo % (2 * g) = 0 THEN down ELSE up

\* math.Abs
Abs(f) == [f EXCEPT !.neg = FALSE]

WIsZero(w) == w.hi = 0 /\ w.lo = 0

WMod10(w) == w.lo % 10

WDiv10(w) ==
    [w EXCEPT !.hi = w.hi \div 10,
              !.lo = (w.hi % 10) * (Limb \div 10) + (w.lo \div 10)]

RECURSIVE digitLoop(_, _)
digitLoop(n, sum) ==
    IF ~WIsZero(n) THEN digitLoop(WDiv10(n), sum + WMod10(n)) ELSE sum

\* digitSum: the float64 value of line 105 is integral and inside the int
\* range for every modelled n, so int() returns it unchanged.
digitSum(n) == digitLoop(Abs(Float64(n)), 0)

(***************************************************************************)
(* Fun-fact enrichment.                                                    *)
(***************************************************************************)
\* Faulty variant: a fallback text that does not name the number.
Fallback_NoNumber(n) == <<"Could not fetch fun fact">>

\* fmt.Sprintf("%d is an interesting number!", n)
Fallback(n) == Itoa(n) \o <<" is an interesting number!">>

Facts == {<<"a fact">>, <<>>}

JSONValues ==
    {[type |-> "number"], [type |-> "null"]} \cup
    {[type |-> "string", val |-> t] : t \in Facts}

\* A response body: not JSON at all, JSON that is not an object, or an
\* object with or without a "text" member.
Bodies ==
    {[json |-> FALSE], [json |-> TRUE, object |-> FALSE]} \cup
    {[json |-> TRUE, object |-> TRUE, members |-> {}]} \cup
    {[json |-> TRUE, object |-> TRUE, members |-> {<<"text", v>>}] :
        v \in JSONValues}

\* What http.Get hands back: an error, or a response with a body.
Replies == {[err |-> TRUE]} \cup {[err |-> FALSE, body |-> b] : b \in Bodies}

NoReply == [err |-> FALSE, body |-> [json |-> FALSE], none |-> TRUE]

\* json.NewDecoder(resp.Body).Decode(&result) into a map[string]interface{}
Decode(b) ==
    IF b.json /\ b.object
    THEN [err |-> FALSE, result |-> b.members]
    ELSE [err |-> TRUE, result |-> {}]

\* result["text"].(string)
TextString(result) ==
    IF \E m \in result : m[1] = "text" /\ m[2].type = "string"
    THEN [exists |-> TRUE,
          fact |-> (CHOOSE m \in result : m[1] = "text")[2].val]
    ELSE [exists |-> FALSE, fact |-> <<>>]

\* getFunFact once http.Get has returned r.
getFunFact(n, r) ==
    IF r.err THEN Fallback(n)
    ELSE IF Decode(r.body).err THEN Fallback(n)
    ELSE IF TextString(Decode(r.body).result).exists
         THEN TextString(Decode(r.body).result).fact
         ELSE Fallback(n)

(***************************************************************************)
(* Request handler.                                                        *)
(***************************************************************************)
StatusBadRequest == 400
StatusOK == 200

\* Faulty variant: the error body does not echo the input.
ErrorBody_NoEcho(s) == [number |-> <<>>, error |-> TRUE]

ErrorBody(s) == [number |-> s, error |-> TRUE]

\* Faulty variant: the parity tag is appended before "armstrong".
Properties_ParityFirst(n) ==
    (IF GoRem(n, 2) = 0 THEN <<"even">> ELSE <<"odd">>) \o
    (IF isArmstrong(n) THEN <<"armstrong">> ELSE <<>>)

Properties(n) ==
    (IF isArmstrong(n) THEN <<"armstrong">> ELSE <<>>) \o
    (IF GoRem(n, 2) = 0 THEN <<"even">> ELSE <<"odd">>)

NoBody == [none |-> TRUE]
NoPartial == [none |-> TRUE]
NoQuery == [present |-> FALSE, value |-> <<>>]

\* The handler from its entry to the http.Get call inside getFunFact: the
\* error response, or the evaluator results with the request in flight.
classifyNumber(q) ==
    /\ pc = "idle"
    /\ query' = q
    /\ numberStr' = TrimSpace(Query(q))
    /\ LET numberFloat == ParseFloat(numberStr')
       IN  IF numberFloat.err
           THEN /\ status' = StatusBadRequest
                /\ body' = ErrorBody(numberStr')
                /\ pc' = "done"
                /\ UNCHANGED <<number, partial, evalCalls, getCalls, provider>>
           ELSE /\ number' \in IntOfFloat(numberFloat)
                /\ partial' = [properties |-> Properties(number'),
                               is_prime |-> isPrime(number'),
                               is_perfect |-> isPerfect(number'),
                               digit_sum |-> digitSum(Int64(number'))]
                /\ evalCalls' = 4
                /\ getCalls' = 1
                /\ provider' \in {"answering", "silent"}
                /\ pc' = "get"
                /\ UNCHANGED <<status, body>>
    /\ UNCHANGED <<reply, arg, res>>
    /\ UNCHANGED extVars

\* http.Get returns r; getFunFact and the handler run to the response.
HttpGetReturns(r) ==
    /\ pc = "get"
    /\ provider = "answering"
    /\ reply' = r
    /\ status' = StatusOK
    /\ body' = [number |-> number,
                is_prime |-> partial.is_prime,
                is_perfect |-> partial.is_perfect,
                properties |-> partial.properties,
                digit_sum |-> partial.digit_sum,
                fun_fact |-> getFunFact(number, r)]
    /\ pc' = "done"
    /\ UNCHANGED <<query, numberStr, number, partial, evalCalls, getCalls,
                   provider, arg, res>>
    /\ UNCHANGED extVars

\* The handler has returned; the server takes the next request.
Return ==
    /\ pc = "done"
    /\ pc' = "idle"
    /\ query' = NoQuery
    /\ numberStr' = <<>>
    /\ number' = 0
    /\ partial' = NoPartial
    /\ status' = 0
    /\ body' = NoBody
    /\ evalCalls' = 0
    /\ getCalls' = 0
    /\ provider' = "none"
    /\ reply' = NoReply
    /\ UNCHANGED <<arg, res>>
    /\ UNCHANGED extVars

NoRes == [fn |-> "none", val |-> 0]

Procs == 1..NumProcs

IdleHandler ==
    [pc |-> "idle", query |-> NoQuery, numberStr |-> <<>>, number |-> 0,
     partial |-> NoPartial, status |-> 0, body |-> NoBody,
     provider |-> "none", reply |-> NoReply]

NoMemo == [set |-> FALSE]
NoVres == [variant |-> "none"]

\* The variables of the concurrent server and of the variant programs at rest.
ExtIdle ==
    /\ handlers = [p \in Procs |-> IdleHandler]
    /\ build = [neg \in BOOLEAN |-> 0]
    /\ memo = NoMemo
    /\ vres = NoVres

HandlerIdle ==
    /\ pc = "idle"
    /\ query = NoQuery
    /\ numberStr = <<>>
    /\ number = 0
    /\ partial = NoPartial
    /\ status = 0
    /\ body = NoBody
    /\ evalCalls = 0
    /\ getCalls = 0
    /\ provider = "none"
    /\ reply = NoReply

Init ==
    /\ pc = "idle"
    /\ query = NoQuery
    /\ numberStr = <<>>
    /\ number = 0
    /\ partial = NoPartial
    /\ status = 0
    /\ body = NoBody
    /\ evalCalls = 0
    /\ getCalls = 0
    /\ provider = "none"
    /\ reply = NoReply
    /\ arg = Int64(0)
    /\ res = NoRes
    /\ ExtIdle

Next ==
    \/ \E q \in Queries : classifyNumber(q)
    \/ \E r \in Replies : HttpGetReturns(r)
    \/ Return

Spec == Init /\ [][Next]_vars

\* The handler goroutine runs, and a provider that answers does answer.
SpecLive ==
    /\ Init
    /\ [][Next]_vars
    /\ WF_vars(\E r \in Replies : HttpGetReturns(r))
    /\ WF_vars(Return)

(***************************************************************************)
(* Evaluator harness: each evaluator function applied to an integer drawn  *)
(* from EvalInputs.  isPrime, isPerfect and isArmstrong are applied to the *)
(* inputs that fit one limb.                                               *)
(***************************************************************************)
EvalInputs ==
    {Int64(n) : n \in (0 - MaxN)..MaxN} \cup
    {[neg |-> s, hi |-> w.hi, lo |-> w.lo] :
        s \in BOOLEAN,
        w \in {WShift(TwoTo53, k) : k \in (0 - MaxOff)..MaxOff}}

Narrow(w) == IF w.neg THEN 0 - w.lo ELSE w.lo

CallIsPrime ==
    /\ res.fn = "none"
    /\ arg.hi = 0
    /\ res' = [fn |-> "isPrime", val |-> isPrime(Narrow(arg))]
    /\ UNCHANGED <<arg, handlerVars, extVars>>

CallIsPerfect ==
    /\ res.fn = "none"
    /\ arg.hi = 0
    /\ res' = [fn |-> "isPerfect", val |-> isPerfect(Narrow(arg))]
    /\ UNCHANGED <<arg, handlerVars, extVars>>

CallIsArmstrong ==
    /\ res.fn = "none"
    /\ arg.hi = 0
    /\ res' = [fn |-> "isArmstrong", val |-> isArmstrong(Narrow(arg))]
    /\ UNCHANGED <<arg, handlerVars, extVars>>

CallDigitSum ==
    /\ res.fn = "none"
    /\ res' = [fn |-> "digitSum", val |-> digitSum(arg)]
    /\ UNCHANGED <<arg, handlerVars, extVars>>

InitEval ==
    /\ pc = "idle"
    /\ query = NoQuery
    /\ numberStr = <<>>
    /\ number = 0
    /\ partial = NoPartial
    /\ status = 0
    /\ body = NoBody
    /\ evalCalls = 0
    /\ getCalls = 0
    /\ provider = "none"
    /\ reply = NoReply
    /\ arg \in EvalInputs
    /\ res = NoRes
    /\ ExtIdle

NextEval ==
    \/ CallIsPrime
    \/ CallIsPerfect
    \/ CallIsArmstrong
    \/ CallDigitSum

SpecEval == InitEval /\ [][NextEval]_vars

(***************************************************************************)
(* Properties of the request handler.                                      *)
(***************************************************************************)
HasDot(s) == \E i \in 1..Len(s) : s[i] = "."

\* s without its leading and trailing spaces, by position.
Trimmed(s) ==
    LET keep == {i \in 1..Len(s) : s[i] # " "}
    IN  IF keep = {} THEN <<>>
        ELSE SubSeq(s, CHOOSE i \in keep : \A j \in keep : i <= j,
                       CHOOSE i \in keep : \A j \in keep : i >= j)

\* A decimal literal: an optional sign, then digits with at most one '.'
\* among them and at least one digit.
IsNumeric(s) ==
    /\ s # <<>>
    /\ LET b == IF s[1] \in {"+", "-"} THEN Tail(s) ELSE s
       IN  /\ \A i \in 1..Len(b) : b[i] \in DigitChars \cup {"."}
           /\ Cardinality({i \in 1..Len(b) : b[i] = "."}) <= 1
           /\ \E i \in 1..Len(b) : b[i] \in DigitChars

\* The decimal representation of n, digit by position.
Decimal(n) ==
    LET m == IF n < 0 THEN 0 - n ELSE n
        len == CHOOSE d \in 1..9 : (d = 1 \/ 10 ^ (d - 1) <= m) /\ m < 10 ^ d
        digits == [k \in 1..len |-> DigitStr[((m \div (10 ^ (len - k))) % 10) + 1]]
    IN  IF n < 0 THEN <<"-">> \o digits ELSE digits

Contains(text, sub) ==
    \E i \in 1..(Len(text) - Len(sub) + 1) :
        SubSeq(text, i, i + Len(sub) - 1) = sub

\* The fun-fact call failed: a network error, a body that is not a JSON
\* object, or an object without a string "text" member.
FailedReply(r) ==
    \/ r.err
    \/ ~r.body.json
    \/ ~r.body.object
    \/ ~\E m \in r.body.members : m[1] = "text" /\ m[2].type = "string"

SuccessFields ==
    {"number", "is_prime", "is_perfect", "properties", "digit_sum", "fun_fact"}

\* C1: every input containing a decimal point is answered with status 400
\* and is never truncated to an integer and classified.
C1_DecimalPointRejected ==
    (pc # "idle" /\ HasDot(Query(query)))
        => (pc = "done" /\ status = 400 /\ evalCalls = 0)

C3_OverflowRejected ==
    (pc # "idle" /\ IsNumeric(Trimmed(Query(query)))
                 /\ OutOfRange(ParseFloat(Trimmed(Query(query)))))
        => (pc = "done" /\ status = 400 /\ body.error /\ evalCalls = 0)

\* C4: whichever way the fun-fact call fails, the response has status 200
\* and the full result, with a non-empty fun_fact that contains the number.
C4_FallbackOnFailure ==
    (pc = "done" /\ getCalls = 1 /\ FailedReply(reply))
        => /\ status = 200
           /\ DOMAIN body = SuccessFields
           /\ body.number = number
           /\ body.fun_fact # <<>>
           /\ Contains(body.fun_fact, Decimal(number))

C4_Witness ==
    /\ pc = "done"
    /\ status = 200
    /\ reply.err
    /\ number = 0 - 15
    /\ body.fun_fact = <<"-", "1", "5", " is an interesting number!">>

\* C5: every request whose handler waits on the fun-fact provider is
\* eventually answered, even when the provider never answers.
C5_EveryRequestAnswered == (pc = "get") ~> (pc = "done")

\* C6: the properties of a successful response are "armstrong" (present iff
\* isArmstrong of the number) followed by exactly one of "even" (iff the
\* number is divisible by 2, zero and negatives included) or "odd".
C6_PropertiesOrder ==
    (pc = "done" /\ status = 200)
        => body.properties =
               (IF isArmstrong(body.number) THEN <<"armstrong">> ELSE <<>>) \o
               <<IF body.number % 2 = 0 THEN "even" ELSE "odd">>

C6_Witness ==
    /\ pc = "done"
    /\ status = 200
    /\ body.number = 371
    /\ body.properties = <<"armstrong", "odd">>

(***************************************************************************)
(* Properties of the evaluator functions.                                  *)
(***************************************************************************)
\* The sum of f over the index set S.
RECURSIVE SumOver(_, _)
SumOver(f, S) ==
    IF S = {} THEN 0
    ELSE LET k == CHOOSE k \in S : TRUE
         IN  f[k] + SumOver(f, S \ {k})

SetSum(S) == SumOver([x \in S |-> x], S)

\* The sum of the decimal digits of n >= 0, each raised to the digit count.
DigitPowerSum(n) ==
    LET len == CHOOSE d \in 1..9 : (d = 1 \/ 10 ^ (d - 1) <= n) /\ n < 10 ^ d
    IN  SumOver([k \in 0..(len - 1) |-> ((n \div (10 ^ k)) % 10) ^ len],
                0..(len - 1))

C8_IsPerfect ==
    res.fn = "isPerfect"
        => (res.val <=>
              (Narrow(arg) > 0 /\
               SetSum({d \in 1..(Narrow(arg) - 1) : Narrow(arg) % d = 0}) = Narrow(arg)))

C8_Witness == res.fn = "isPerfect" /\ Narrow(arg) = 28 /\ res.val

\* C9: isPrime(n) is false for n < 2, and for n >= 2 true iff no i with
\* 2 <= i and i*i <= n divides n.
C9_IsPrime ==
    res.fn = "isPrime"
        => (res.val <=>
              (Narrow(arg) >= 2 /\
               \A i \in 2..Narrow(arg) : i * i <= Narrow(arg) => Narrow(arg) % i # 0))

C9_Witness == res.fn = "isPrime" /\ Narrow(arg) = 97 /\ res.val

\* The sum of the decimal digits of x, 0 <= x < 10^9, by position.
DigitsOf(x) == SumOver([k \in 0..8 |-> (x \div (10 ^ k)) % 10], 0..8)

\* C10: digitSum(n) is the sum of the decimal digits of |n|, for every
\* integer n; in particular it is never negative.
C10_DigitSum ==
    res.fn = "digitSum"
        => (res.val = DigitsOf(arg.hi) + DigitsOf(arg.lo) /\ res.val >= 0)

(***************************************************************************)
(* Concurrent server: gin runs classifyNumber in one goroutine per         *)
(* request.  Each goroutine p has its own locals, handlers[p]; the program *)
(* has no package-level variables.  The out-of-range conversion of line 33 *)
(* is fixed by the build, so it is chosen once, in build.                  *)
(***************************************************************************)
ConcQueries ==
    {[present |-> TRUE, value |-> v] :
        v \in { <<"3", "7", "1">>, <<"a">>,
                <<"9","9","9","9","9","9","9","9","9","9",
                  "9","9","9","9","9","9","9","9","9","9">> }}

ConcReplies ==
    { [err |-> TRUE],
      [err |-> FALSE,
       body |-> [json |-> TRUE, object |-> TRUE,
                 members |-> {<<"text", [type |-> "string", val |-> <<"a fact">>]>>}]] }

Builds == [BOOLEAN -> ImplDefined]

\* int(numberFloat) on this build.
IntOfFloatOn(f) ==
    IF OutOfRange(f) THEN build[f.neg] ELSE CHOOSE n \in IntOfFloat(f) : TRUE

\* The locals of a goroutine that parsed s into n, computed the evaluator
\* results and is blocked in http.Get, the provider's disposition being d.
Classified(q, s, n, d) ==
    [pc |-> "get", query |-> q, numberStr |-> s, number |-> n,
     partial |-> [properties |-> Properties(n),
                  is_prime |-> isPrime(n),
                  is_perfect |-> isPerfect(n),
                  digit_sum |-> digitSum(Int64(n))],
     status |-> 0, body |-> NoBody, provider |-> d, reply |-> NoReply]

\* The locals of a goroutine that answered s with the error response.
Rejected(q, s) ==
    [pc |-> "done", query |-> q, numberStr |-> s, number |-> 0,
     partial |-> NoPartial, status |-> StatusBadRequest, body |-> ErrorBody(s),
     provider |-> "none", reply |-> NoReply]

\* Faulty variant: number is a package-level variable, so a goroutine may
\* classify the number another goroutine in flight has stored there.
Handle_SharedNumber(p, q) ==
    /\ handlers[p].pc = "idle"
    /\ LET s == TrimSpace(Query(q))
           f == ParseFloat(s)
       IN  IF f.err
           THEN handlers' = [handlers EXCEPT ![p] = Rejected(q, s)]
           ELSE \E d \in {"answering", "silent"} :
                \E n \in {IntOfFloatOn(f)} \cup
                         {handlers[o].number : o \in {o \in Procs : handlers[o].pc = "get"}} :
                    handlers' = [handlers EXCEPT ![p] = Classified(q, s, n, d)]
    /\ UNCHANGED <<handlerVars, arg, res, build, memo, vres>>

\* classifyNumber in goroutine p, from its entry to the http.Get call.
Handle(p, q) ==
    /\ handlers[p].pc = "idle"
    /\ LET s == TrimSpace(Query(q))
           f == ParseFloat(s)
       IN  IF f.err
           THEN handlers' = [handlers EXCEPT ![p] = Rejected(q, s)]
           ELSE \E d \in {"answering", "silent"} :
                    handlers' = [handlers EXCEPT
                                    ![p] = Classified(q, s, IntOfFloatOn(f), d)]
    /\ UNCHANGED <<handlerVars, arg, res, build, memo, vres>>

\* http.Get returns r in goroutine p, which runs on to its response.
GetReturns(p, r) ==
    /\ handlers[p].pc = "get"
    /\ handlers[p].provider = "answering"
    /\ LET h == handlers[p]
       IN  handlers' =
             [handlers EXCEPT
                ![p] = [h EXCEPT
                          !.pc = "done",
                          !.reply = r,
                          !.status = StatusOK,
                          !.body = [number |-> h.number,
                                    is_prime |-> h.partial.is_prime,
                                    is_perfect |-> h.partial.is_perfect,
                                    properties |-> h.partial.properties,
                                    digit_sum |-> h.partial.digit_sum,
                                    fun_fact |-> getFunFact(h.number, r)]]]
    /\ UNCHANGED <<handlerVars, arg, res, build, memo, vres>>

\* The fields of a response other than fun_fact.
Core(h) ==
    IF h.status = StatusOK
    THEN [number |-> h.body.number,
          is_prime |-> h.body.is_prime,
          is_perfect |-> h.body.is_perfect,
          properties |-> h.body.properties,
          digit_sum |-> h.body.digit_sum]
    ELSE h.body

\* Goroutine p ends; its response may be the one kept for later comparison.
Finish(p) ==
    /\ handlers[p].pc = "done"
    /\ handlers' = [handlers EXCEPT ![p] = IdleHandler]
    /\ memo' \in {memo, [set |-> TRUE, query |-> handlers[p].query,
                         status |-> handlers[p].status,
                         core |-> Core(handlers[p])]}
    /\ UNCHANGED <<handlerVars, arg, res, build, vres>>

InitConc ==
    /\ HandlerIdle
    /\ arg = Int64(0)
    /\ res = NoRes
    /\ handlers = [p \in Procs |-> IdleHandler]
    /\ build \in Builds
    /\ memo = NoMemo
    /\ vres = NoVres

NextConc ==
    \/ \E p \in Procs : \E q \in ConcQueries : Handle(p, q)
    \/ \E p \in Procs : \E r \in ConcReplies : GetReturns(p, r)
    \/ \E p \in Procs : Finish(p)

SpecConc == InitConc /\ [][NextConc]_vars

\* C11: under any interleaving of concurrently handled requests, two requests
\* with the same input get the same status and the same number, is_prime,
\* is_perfect, properties and digit_sum, whether they run alongside each
\* other or one after the other; only fun_fact may differ.
C11_OwnInputOnly ==
    /\ \A p \in Procs : \A o \in Procs :
         (handlers[p].pc = "done" /\ handlers[o].pc = "done"
             /\ handlers[p].query = handlers[o].query)
           => /\ handlers[p].status = handlers[o].status
              /\ Core(handlers[p]) = Core(handlers[o])
    /\ \A p \in Procs :
         (handlers[p].pc = "done" /\ memo.set /\ memo.query = handlers[p].query)
           => /\ memo.status = handlers[p].status
              /\ memo.core = Core(handlers[p])

C11_Witness ==
    /\ memo.set
    /\ memo.query.value = <<"3", "7", "1">>
    /\ \E p \in Procs : \E o \in Procs :
         /\ handlers[p].pc = "done"
         /\ handlers[o].pc = "done"
         /\ handlers[p].query = memo.query
         /\ handlers[o].query = memo.query
         /\ handlers[p].body.fun_fact # handlers[o].body.fun_fact
         /\ Core(handlers[p]) = memo.core

(***************************************************************************)
(* The other implementations of /api/classify-number in the repository:    *)
(* part_000 and part_001 (gin) and the second program of part_002          *)
(* (gorilla/mux).  isPrime and isArmstrong have the text of main.go in     *)
(* each of them; isPerfect, digitSum, getFunFact and the handler do not.   *)
(* vres holds the request a variant is serving and its response.           *)
(***************************************************************************)
\* a / b, truncated toward zero.
GoQuo(a, b) == IF a >= 0 THEN a \div b ELSE 0 - ((0 - a) \div b)

\* strconv.Atoi: an optional sign and one or more decimal digits; a value
\* outside the int range is an error.  Every query that is in range has
\* fewer than ten digits.
Atoi(s) ==
    IF s = <<>> THEN [err |-> TRUE]
    ELSE
        LET d == IF s[1] \in {"+", "-"} THEN Tail(s) ELSE s
            m == StripZeros(d)
            neg == s[1] = "-"
        IN  IF d = <<>> \/ \E i \in 1..Len(d) : d[i] \notin DigitChars
            THEN [err |-> TRUE]
            ELSE IF \/ Len(m) > Len(TwoTo63)
                    \/ /\ Len(m) = Len(TwoTo63)
                       /\ ~DigitsLess(m, TwoTo63)
                       /\ ~(neg /\ m = TwoTo63)
            THEN [err |-> TRUE]
            ELSE [err |-> FALSE,
                  val |-> IF neg THEN 0 - DigitsValue(m, 0) ELSE DigitsValue(m, 0)]

\* part_000 and part_001: the loop runs for every n, so sum stays 0 for
\* n <= 0 and is compared with n.
isPerfect_part000(n) == 0 + perfectLoop(n, 1, n) = n

isPerfect_part001(n) == 0 + perfectLoop(n, 1, n) = n

\* part_002: sum starts at 1 and the loop runs over i = 2, ..., n/2.
isPerfect_part002(n) ==
    IF n < 2 THEN FALSE ELSE 1 + perfectLoop(n, 2, GoQuo(n, 2) + 1) = n

digitSum_part000(n) == digitLoop(Abs(Float64(Int64(n))), 0)

\* part_001: no absolute value; the remainders of a negative n are negative.
RECURSIVE digitLoop_part001(_, _)
digitLoop_part001(n, sum) ==
    IF n # 0 THEN digitLoop_part001(GoQuo(n, 10), sum + GoRem(n, 10)) ELSE sum

digitSum_part001(n) == digitLoop_part001(n, 0)

\* part_002: no absolute value; the loop is not entered for n <= 0.
RECURSIVE digitLoop_part002(_, _)
digitLoop_part002(n, sum) ==
    IF n > 0 THEN digitLoop_part002(GoQuo(n, 10), sum + GoRem(n, 10)) ELSE sum

digitSum_part002(n) == digitLoop_part002(n, 0)

\* part_000 and part_001: a fixed text, no request to the provider.
getFunFact_part000(n) == Itoa(n) \o <<" is an interesting number!">>

getFunFact_part001(n) ==
    Itoa(n) \o <<" is a cool number with unique properties, it might just be number of your best day!">>

\* part_002: what http.Get hands back, the body as its sequence of
\* space-separated words.
TextReplies ==
    {[err |-> TRUE]} \cup
    {[err |-> FALSE, words |-> w] :
        w \in {<<>>, <<"371">>, <<"371", "is", "a", "narcissistic", "number.">>}}

\* part_002: fmt.Fscan reads the first word of the body.
getFunFact_part002(n, r) ==
    IF r.err THEN <<"Could not fetch fun fact">>
    ELSE IF r.words = <<>> THEN <<"Could not parse fun fact">>
    ELSE <<Head(r.words)>>

\* part_002: the parity tag comes first.
Properties_part002(n) ==
    (IF GoRem(n, 2) = 0 THEN <<"even">> ELSE <<"odd">>) \o
    (IF isArmstrong(n) THEN <<"armstrong">> ELSE <<>>)

VariantRejected(v, q, s) ==
    [variant |-> v, pc |-> "done", query |-> q, number |-> 0,
     status |-> StatusBadRequest, body |-> [number |-> s, error |-> TRUE]]

\* part_000: trims the parameter and parses it with strconv.Atoi.
classifyNumber_part000(q) ==
    /\ vres.variant = "none"
    /\ LET numberStr_ == TrimSpace(Query(q))
           a == Atoi(numberStr_)
       IN  vres' =
             IF a.err THEN VariantRejected("part_000", q, numberStr_)
             ELSE [variant |-> "part_000", pc |-> "done", query |-> q,
                   number |-> a.val, status |-> StatusOK,
                   body |-> [number |-> a.val,
                             is_prime |-> isPrime(a.val),
                             is_perfect |-> isPerfect_part000(a.val),
                             properties |-> Properties(a.val),
                             digit_sum |-> digitSum_part000(a.val),
                             fun_fact |-> getFunFact_part000(a.val)]]
    /\ UNCHANGED <<handlerVars, arg, res, handlers, build, memo>>

\* part_001: parses the parameter as it came with strconv.Atoi.
classifyNumber_part001(q) ==
    /\ vres.variant = "none"
    /\ LET numberStr_ == Query(q)
           a == Atoi(numberStr_)
       IN  vres' =
             IF a.err THEN VariantRejected("part_001", q, numberStr_)
             ELSE [variant |-> "part_001", pc |-> "done", query |-> q,
                   number |-> a.val, status |-> StatusOK,
                   body |-> [number |-> a.val,
                             is_prime |-> isPrime(a.val),
                             is_perfect |-> isPerfect_part001(a.val),
                             properties |-> Properties(a.val),
                             digit_sum |-> digitSum_part001(a.val),
                             fun_fact |-> getFunFact_part001(a.val)]]
    /\ UNCHANGED <<handlerVars, arg, res, handlers, build, memo>>

\* part_002: the handler from its entry to the http.Get call of getFunFact;
\* the other fields of the Response literal are evaluated before it.
classifyNumber_part002(q) ==
    /\ vres.variant = "none"
    /\ LET a == Atoi(Query(q))
       IN  vres' =
             IF a.err THEN VariantRejected("part_002", q, Query(q))
             ELSE [variant |-> "part_002", pc |-> "get", query |-> q,
                   number |-> a.val, status |-> 0,
                   body |-> [number |-> a.val,
                             is_prime |-> isPrime(a.val),
                             is_perfect |-> isPerfect_part002(a.val),
                             properties |-> Properties_part002(a.val),
                             digit_sum |-> digitSum_part002(a.val),
                             fun_fact |-> <<>>]]
    /\ UNCHANGED <<handlerVars, arg, res, handlers, build, memo>>

\* part_002: http.Get returns r and the response is encoded.
TextGetReturns(r) ==
    /\ vres.variant = "part_002"
    /\ vres.pc = "get"
    /\ vres' = [vres EXCEPT
                  !.pc = "done",
                  !.status = StatusOK,
                  !.body = [vres.body EXCEPT
                              !.fun_fact = getFunFact_part002(vres.number, r)]]
    /\ UNCHANGED <<handlerVars, arg, res, handlers, build, memo>>

\* The variant's handler has returned.
VariantReturn ==
    /\ vres.variant # "none"
    /\ vres.pc = "done"
    /\ vres' = NoVres
    /\ UNCHANGED <<handlerVars, arg, res, handlers, build, memo>>

InitVariants ==
    /\ HandlerIdle
    /\ arg = Int64(0)
    /\ res = NoRes
    /\ ExtIdle

NextVariants ==
    \/ \E q \in Queries : classifyNumber_part000(q)
    \/ \E q \in Queries : classifyNumber_part001(q)
    \/ \E q \in Queries : classifyNumber_part002(q)
    \/ \E r \in TextReplies : TextGetReturns(r)
    \/ VariantReturn

SpecVariants == InitVariants /\ [][NextVariants]_vars

\* Whether main.go and the three variants all take q for an integer.
AcceptedByAll(q) ==
    /\ ~Atoi(Query(q)).err
    /\ ~Atoi(TrimSpace(Query(q))).err
    /\ ~ParseFloat(TrimSpace(Query(q))).err
    /\ ~OutOfRange(ParseFloat(TrimSpace(Query(q))))

\* What main.go reports for q, fun_fact apart.
MainReport(q) ==
    LET n == CHOOSE n \in IntOfFloat(ParseFloat(TrimSpace(Query(q)))) : TRUE
    IN  [number |-> n,
         is_prime |-> isPrime(n),
         is_perfect |-> isPerfect(n),
         properties |-> Properties(n),
         digit_sum |-> digitSum(Int64(n))]

\* C12: for every input that main.go and all the variants accept as an
\* integer n, 0 and negative n included, the response of each variant has
\* the is_prime, is_perfect, properties (same elements, same order) and
\* digit_sum that main.go reports for n.
C12_VariantsAgree ==
    (vres.variant # "none" /\ vres.pc = "done" /\ AcceptedByAll(vres.query))
        => /\ vres.status = StatusOK
           /\ vres.body.number = MainReport(vres.query).number
           /\ vres.body.is_prime = MainReport(vres.query).is_prime
           /\ vres.body.is_perfect = MainReport(vres.query).is_perfect
           /\ vres.body.properties = MainReport(vres.query).properties
           /\ vres.body.digit_sum = MainReport(vres.query).digit_sum

====
